---- MODULE Spec2Model ----
(***************************************************************************)
(* Model of the podcast audio pipeline: AudioProcessor (script -> clips -> *)
(* combined audio -> exported file), the TTS backends behind TTSFactory    *)
(* and the Piper voice cache (download on demand into PIPER_DATA_DIR).     *)
(*                                                                         *)
(* A behaviour is one run.  The configuration (speaker->voice and          *)
(* speaker->engine dicts, speed_scale, OUTPUT_FORMAT, the script) is       *)
(* chosen in Init and never changes; pc is the position of the run in      *)
(* process_script_to_audio / _generate_audio_clips.  Sequences are         *)
(* 1-based: line idx of the model is enumerate() index idx-1 of the code.  *)
(*                                                                         *)
(* Single functions are checked in specifications of their own, with the   *)
(* run idle: SpecParse (ScriptParser.validate_and_preview_script over      *)
(* scripts as character sequences), SpecSynth (the text a backend hands    *)
(* to its engine) and SpecEngines (validate_tts_engines).                  *)
(***************************************************************************)
EXTENDS Integers, Sequences, FiniteSets, TLC

VARIABLES
    entry,              \* the method the caller invoked
    speaker_voices,     \* dict speaker -> voice id
    speaker_engines,    \* dict speaker -> engine key
    speed_scale,        \* tenths: 10 is 1.0, 12 is 1.2
    OUTPUT_FORMAT,      \* config/settings.py OUTPUT_FORMAT
    script,             \* speaker tags of the script's physical lines
    pc,                 \* position of the run
    dialogue_lines,     \* speakers of the parsed dialogue lines
    piper_voices_to_download,
    idx,                \* loop index of _generate_audio_clips
    clips,              \* clips loaded so far (each names the line it holds)
    tempdir,            \* "none" | "exists" | "removed"
    tempfiles,          \* files inside tempdir: path -> audio content
    cache,              \* PIPER_DATA_DIR: voice id -> state of its two files
    combined,           \* the combined buffer (sequence of clips) or <<>>
    output_file,        \* state of the file at output_path
    error,              \* the exception propagating out of the run, or None
    raised,             \* every exception raised so far, with its phase
    phase_log,          \* the phases the run has been in, in order
    synth_calls,        \* log of backend synthesize calls
    resolver_calls,     \* log of _ensure_voice_available calls
    parser,             \* one call of ScriptParser.validate_and_preview_script
    backend_call,       \* one call of a backend's synthesize
    engine_check,       \* one call of validate_tts_engines
    resolver,           \* calls of PiperTTS._ensure_voice_available on one cache
    workers,            \* two concurrent callers of _ensure_voice_available
    export_call         \* one call of AudioProcessor._export_audio

run_vars == <<entry, speaker_voices, speaker_engines, speed_scale, OUTPUT_FORMAT,
          script, pc, dialogue_lines, piper_voices_to_download, idx, clips,
          tempdir, tempfiles, cache, combined, output_file, error, raised,
          phase_log, synth_calls, resolver_calls>>

\* the calls of single functions, idle during a run of the pipeline
unit_vars == <<parser, backend_call, engine_check, resolver, workers,
              export_call>>

vars == <<run_vars, unit_vars>>

config == <<entry, speaker_voices, speaker_engines, speed_scale,
            OUTPUT_FORMAT, script>>

-----------------------------------------------------------------------------
(* Bounds and input sets *)

MaxLines == 2

None == "None"

\* the value of a unit variable while its function is not being called
Idle == [pc |-> "idle"]

Speakers == {"HOST", "GUEST"}

VoiceIds == {"", "en_US-amy-medium"}

\* speed_scale == 1.0, in tenths
NormalSpeed == 10

Speeds == {NormalSpeed, 12}

SUPPORTED_FORMATS == {"wav", "mp3", "ogg", "flac"}

\* the formats a configuration of the model may name ("ogg" and "flac" take
\* the same paths through the code as "wav")
ConfigFormats == {"wav", "mp3"}

\* TTSFactory._engines
RegisteredEngines == {"piper", "edge", "openai", "coqui"}

\* TTSFactory._create_legacy_engine
LegacyEngines == {"say", "sapi", "espeak", "fish", "bark"}

\* engine keys a configuration of the model may name; a speaker without an
\* entry gets "piper" (speaker_engines.get(speaker, "piper"))
ConfigEngines == {"edge", "bogus"}

Dicts(K, V) == UNION {[D -> V] : D \in SUBSET K}

SeqsUpTo(S, n) == UNION {[1..k -> S] : k \in 0..n}

\* dict.get(key, default)
Get(d, k, default) == IF k \in DOMAIN d THEN d[k] ELSE default

-----------------------------------------------------------------------------
(* Voice cache: PiperTTS._ensure_voice_available / _download_voice *)

FileStates == {"absent", "partial", "complete"}

Exists(f) == f # "absent"

\* str.startswith over the voice ids of the model
StartsWith(v, prefix) ==
    CASE prefix = "en_US-" -> v \in {"en_US-amy-medium", "en_US-ryan-medium"}
      [] prefix = "en_GB-" -> v \in {"en_GB-alan-low"}
      [] OTHER -> FALSE

\* one _download_file call on a file in state f
\* outcome: "ok" | "http_error" (raise_for_status) | "stream_error" (after open)
DownloadFile(f, outcome) ==
    CASE outcome = "http_error"   -> [file |-> f, raised |-> "DownloadError"]
      [] outcome = "stream_error" -> [file |-> "partial", raised |-> "DownloadError"]
      [] OTHER                    -> [file |-> "complete", raised |-> None]

DownloadOutcomes == {"ok", "http_error", "stream_error"}

\* _download_voice: dl = <<outcome of the model download, outcome of the config download>>
DownloadVoice(c, v, dl) ==
    IF ~(StartsWith(v, "en_US-") \/ StartsWith(v, "en_GB-"))
    THEN [cache |-> c, requests |-> 0, raised |-> "UnsupportedVoiceFormat"]
    ELSE LET m == DownloadFile(c[v].onnx, dl[1]) IN
         IF m.raised # None
         THEN [cache |-> [c EXCEPT ![v].onnx = m.file], requests |-> 1,
               raised |-> m.raised]
         ELSE LET j == DownloadFile(c[v].json, dl[2]) IN
              [cache |-> [c EXCEPT ![v].onnx = m.file, ![v].json = j.file],
               requests |-> 2, raised |-> j.raised]

\* mutant: the existence check looks at the model file only
CacheHitModelOnly(c, v) == Exists(c[v].onnx)

\* the existence check of _ensure_voice_available
CacheHit(c, v) == Exists(c[v].onnx) /\ Exists(c[v].json)

\* _ensure_voice_available
EnsureVoiceAvailable(c, v, dl) ==
    IF CacheHit(c, v)
    THEN [cache |-> c, requests |-> 0, raised |-> None, hit |-> TRUE]
    ELSE LET d == DownloadVoice(c, v, dl) IN
         [cache |-> d.cache, requests |-> d.requests, raised |-> d.raised,
          hit |-> FALSE]

\* log entry of one call: present is the state of the two files when the call
\* started, hit the branch the call took
ResolverEntry(c, v, r) ==
    [voice |-> v, present |-> Exists(c[v].onnx) /\ Exists(c[v].json),
     hit |-> r.hit, requests |-> r.requests, ok |-> r.raised = None]

-----------------------------------------------------------------------------
(* Files and audio *)

\* tempdir / f"{idx:04d}_{speaker}.{OUTPUT_FORMAT}"
WavFile(i, fmt) == [stem |-> i, suffix |-> fmt]

\* Path.with_suffix
WithSuffix(p, s) == [p EXCEPT !.suffix = s]

NoFiles == [p \in {} |-> <<>>]

WriteFile(files, p, content) ==
    [q \in DOMAIN files \cup {p} |-> IF q = p THEN content ELSE files[q]]

Unlink(files, p) == [q \in DOMAIN files \ {p} |-> files[q]]

\* the audio a backend produces for dialogue line i: i frames, each tagged i
\* (line 1 lasts 1 unit, line 2 lasts 2 units, ...)
SpeechOf(i) == [k \in 1..i |-> i]

-----------------------------------------------------------------------------
(* Backends: TTSFactory.create_engine and the synthesize methods *)

\* TTSFactory.create_engine / _create_legacy_engine: None stands for
\* raise ValueError("Unknown TTS engine")
CreateEngine(engine_name) ==
    IF engine_name \in RegisteredEngines THEN engine_name
    ELSE IF engine_name \in LegacyEngines THEN engine_name
    ELSE None

\* EdgeTTS.synthesize, the files after a return without exception
EdgeSynthesize(files, audio, output_path, speed) ==
    IF speed = NormalSpeed
    THEN WriteFile(files, output_path, audio)
    ELSE LET temp_mp3   == WithSuffix(output_path, "mp3")
             saved      == WriteFile(files, temp_mp3, audio)
             \* _convert_with_speed_adjustment: read temp_mp3, export to output_path
             converted  == WriteFile(saved, output_path, saved[temp_mp3])
         IN  IF temp_mp3 \in DOMAIN converted
             THEN Unlink(converted, temp_mp3)
             ELSE converted

\* the files after engine.synthesize returned without exception
SynthesizeFiles(engine, files, audio, output_path, speed) ==
    IF engine = "edge"
    THEN EdgeSynthesize(files, audio, output_path, speed)
    ELSE WriteFile(files, output_path, audio)

RunOutcomes == {"ok", "fail"}

\* engine.synthesize(text, voice, output_path, speed_scale) as a whole:
\* dl are the outcomes of the downloads (read only by Piper on a cache miss),
\* run the outcome of the engine itself
BackendSynthesize(engine, c, files, audio, v, output_path, speed, dl, run) ==
    IF engine = "piper"
    THEN LET r == EnsureVoiceAvailable(c, v, dl) IN
         [cache    |-> r.cache,
          resolver |-> <<ResolverEntry(c, v, r)>>,
          raised   |-> IF r.raised # None THEN r.raised
                       ELSE IF run = "fail" THEN "SynthesisError" ELSE None,
          files    |-> IF r.raised = None /\ run = "ok"
                       THEN WriteFile(files, output_path, audio) ELSE files]
    ELSE [cache    |-> c,
          resolver |-> <<>>,
          raised   |-> IF run = "fail" THEN "SynthesisError" ELSE None,
          files    |-> IF run = "ok"
                       THEN SynthesizeFiles(engine, files, audio, output_path, speed)
                       ELSE files]

DigitStr == <<"0", "1", "2", "3", "4", "5", "6", "7", "8", "9">>

\* str(speed_scale) for a speed of tenths below 10.0: "1.0", "1.2", ...
FloatStr(tenths) == DigitStr[(tenths \div 10) + 1] \o "." \o DigitStr[(tenths % 10) + 1]

\* mutant: the length scale is always passed
PiperCommandWithRate(speed) ==
    <<"piper", "--model", "model_path", "--output_file", "output_path",
      "--text", "text", "--length_scale", FloatStr(speed)>>

\* PiperTTS.synthesize: cmd, with "--length_scale" only for a speed other than 1.0
PiperCommand(speed) ==
    <<"piper", "--model", "model_path", "--output_file", "output_path",
      "--text", "text">>
    \o (IF speed # NormalSpeed THEN <<"--length_scale", FloatStr(speed)>> ELSE <<>>)

\* log entry of one synthesize call: command is the command line Piper built
\* (empty for the other engines and when the voice could not be resolved)
SynthEntry(line, engine, v, speed, res) ==
    [line |-> line, engine |-> engine, voice |-> v, speed_scale |-> speed,
     returned |-> res.raised = None,
     command |-> IF engine = "piper"
                    /\ res.raised \notin {"DownloadError", "UnsupportedVoiceFormat"}
                 THEN PiperCommand(speed) ELSE <<>>]

-----------------------------------------------------------------------------
(* The run: AudioProcessor.process_script_to_audio *)

\* the phase of the run, from the position of the code
PhaseOf(at) ==
    CASE at = "validate"                                -> "Validating"
      [] at \in {"predownload", "probe"}                -> "Resolving-Voices"
      [] at \in {"mkdtemp", "loop", "load", "cleanup"}  -> "Synthesizing"
      [] at = "combine"                                 -> "Combining"
      [] at = "export"                                  -> "Exporting"
      [] at = "done"                                    -> "Done"
      [] at = "returned"                                -> "Returned"
      [] OTHER                                          -> "Failed"

Phase == PhaseOf(pc)

\* bookkeeping: the phase entered by a step is appended to phase_log
LogPhase ==
    phase_log' = IF PhaseOf(pc') = phase_log[Len(phase_log)]
                 THEN phase_log
                 ELSE Append(phase_log, PhaseOf(pc'))

Raised(kind) == [phase |-> Phase, kind |-> kind]

EmptyCache == [v \in VoiceIds |-> [onnx |-> "absent", json |-> "absent"]]

Init ==
    /\ entry \in {"process_script_to_audio", "_generate_audio_clips"}
    /\ speaker_voices \in Dicts(Speakers, VoiceIds)
    /\ speaker_engines \in Dicts(DOMAIN speaker_voices, ConfigEngines)
    /\ speed_scale \in Speeds
    /\ OUTPUT_FORMAT \in ConfigFormats
    /\ IF entry = "process_script_to_audio"
       THEN /\ script \in SeqsUpTo(Speakers, MaxLines)
            /\ dialogue_lines = <<>>
            /\ pc = "validate"
       ELSE /\ script = <<>>
            /\ dialogue_lines \in SeqsUpTo(Speakers, MaxLines)
            /\ pc = "mkdtemp"
    /\ piper_voices_to_download = {}
    /\ idx = 1
    /\ clips = <<>>
    /\ tempdir = "none"
    /\ tempfiles = NoFiles
    /\ cache = EmptyCache
    /\ combined = <<>>
    /\ output_file = "absent"
    /\ error = None
    /\ raised = {}
    /\ phase_log = <<PhaseOf(pc)>>
    /\ synth_calls = <<>>
    /\ resolver_calls = <<>>
    /\ parser = Idle
    /\ backend_call = Idle
    /\ engine_check = Idle
    /\ resolver = Idle
    /\ workers = Idle
    /\ export_call = Idle

\* mutant: every line of the script is kept
AllLines(lines, expected_speakers) == lines

\* the dialogue lines validate_and_preview_script keeps: those whose speaker
\* is one of expected_speakers
ParsedLines(lines, expected_speakers) ==
    SelectSeq(lines, LAMBDA sp : sp \in expected_speakers)

\* process_script_to_audio, "Validate and parse the script"
ValidateScript ==
    /\ pc = "validate"
    /\ LET lines == ParsedLines(script, DOMAIN speaker_voices) IN
       IF lines = <<>>
       THEN /\ error' = "NoDialogueFound"
            /\ raised' = raised \cup {Raised("NoDialogueFound")}
            /\ pc' = "failed"
            /\ UNCHANGED dialogue_lines
       ELSE /\ dialogue_lines' = lines
            /\ pc' = "predownload"
            /\ UNCHANGED <<error, raised>>
    /\ LogPhase
    /\ UNCHANGED <<unit_vars, config, piper_voices_to_download, idx, clips, tempdir,
                   tempfiles, cache, combined, output_file, synth_calls,
                   resolver_calls>>

\* _predownload_piper_voices: the voices of Piper speakers whose .onnx is missing
VoicesToDownload(voices, engines, c) ==
    {voices[sp] : sp \in {s \in DOMAIN voices :
                            /\ Get(engines, s, "piper") = "piper"
                            /\ ~Exists(c[voices[s]].onnx)}}

\* _predownload_piper_voices, up to "Download all missing voices upfront"
PredownloadScan ==
    /\ pc = "predownload"
    /\ piper_voices_to_download' =
           VoicesToDownload(speaker_voices, speaker_engines, cache)
    /\ pc' = IF piper_voices_to_download' = {} THEN "mkdtemp" ELSE "probe"
    /\ LogPhase
    /\ UNCHANGED <<unit_vars, config, dialogue_lines, idx, clips, tempdir, tempfiles,
                   cache, combined, output_file, error, raised, synth_calls,
                   resolver_calls>>

\* what the except clause around the probe lets propagate
ProbePropagates(kind) == None

\* _predownload_piper_voices, one iteration of "for voice in piper_voices_to_download"
PredownloadProbe ==
    /\ pc = "probe"
    /\ \E v \in piper_voices_to_download, dl \in DownloadOutcomes \X DownloadOutcomes,
          run \in RunOutcomes :
         LET res == BackendSynthesize("piper", cache, NoFiles, <<>>, v,
                                      "probe", NormalSpeed, dl, run)
             left == piper_voices_to_download \ {v}
             out  == IF res.raised = None THEN None ELSE ProbePropagates(res.raised)
         IN  /\ cache' = res.cache
             /\ resolver_calls' = resolver_calls \o res.resolver
             /\ synth_calls' = Append(synth_calls,
                                      SynthEntry(0, "piper", v, NormalSpeed, res))
             /\ raised' = IF res.raised = None THEN raised
                          ELSE raised \cup {Raised(res.raised)}
             /\ error' = out
             /\ piper_voices_to_download' = left
             /\ pc' = IF out # None THEN "failed"
                      ELSE IF left = {} THEN "mkdtemp" ELSE "probe"
    /\ LogPhase
    /\ UNCHANGED <<unit_vars, config, dialogue_lines, idx, clips, tempdir, tempfiles,
                   combined, output_file>>

\* _generate_audio_clips: tempfile.mkdtemp() and clips = []
Mkdtemp ==
    /\ pc = "mkdtemp"
    /\ tempdir' = "exists"
    /\ tempfiles' = NoFiles
    /\ clips' = <<>>
    /\ idx' = 1
    /\ pc' = "loop"
    /\ LogPhase
    /\ UNCHANGED <<unit_vars, config, dialogue_lines, piper_voices_to_download, cache,
                   combined, output_file, error, raised, synth_calls,
                   resolver_calls>>

\* mutant: the failing line is logged and tried again
RetryInLoop(kind) ==
    /\ error' = kind
    /\ raised' = raised \cup {Raised(kind)}
    /\ pc' = "loop"

\* an exception inside the try block of _generate_audio_clips: the finally
\* clause runs next
RaiseInLoop(kind) ==
    /\ error' = kind
    /\ raised' = raised \cup {Raised(kind)}
    /\ pc' = "cleanup"

\* _generate_audio_clips, loop body up to engine.synthesize(...)
SynthesizeLine ==
    /\ pc = "loop"
    /\ idx <= Len(dialogue_lines)
    /\ LET speaker     == dialogue_lines[idx]
           voice       == Get(speaker_voices, speaker, None)
           engine_name == Get(speaker_engines, speaker, "piper")
           wav_file    == WavFile(idx, OUTPUT_FORMAT)
       IN  IF voice \in {None, ""}
           THEN /\ RaiseInLoop("MissingVoiceMapping")
                /\ UNCHANGED <<cache, tempfiles, synth_calls, resolver_calls>>
           ELSE IF CreateEngine(engine_name) = None
           THEN /\ RaiseInLoop("UnknownEngine")
                /\ UNCHANGED <<cache, tempfiles, synth_calls, resolver_calls>>
           ELSE \E dl \in DownloadOutcomes \X DownloadOutcomes, run \in RunOutcomes :
                  LET res == BackendSynthesize(CreateEngine(engine_name), cache,
                                 tempfiles, SpeechOf(idx), voice, wav_file,
                                 speed_scale, dl, run)
                  IN  /\ cache' = res.cache
                      /\ tempfiles' = res.files
                      /\ resolver_calls' = resolver_calls \o res.resolver
                      /\ synth_calls' = Append(synth_calls,
                             SynthEntry(idx, engine_name, voice, speed_scale, res))
                      /\ IF res.raised = None
                         THEN /\ pc' = "load"
                              /\ UNCHANGED <<error, raised>>
                         ELSE RaiseInLoop(res.raised)
    /\ LogPhase
    /\ UNCHANGED <<unit_vars, config, dialogue_lines, piper_voices_to_download, idx, clips,
                   tempdir, combined, output_file>>

\* mutant: clips.insert(0, clip)
PrependClip(cs, clip) == <<clip>> \o cs

\* clips.append(clip)
AppendClip(cs, clip) == Append(cs, clip)

\* _generate_audio_clips, clips.append(AudioSegment.from_file(wav_file))
LoadClip ==
    /\ pc = "load"
    /\ \E decodes \in BOOLEAN :
         LET wav_file == WavFile(idx, OUTPUT_FORMAT) IN
         IF wav_file \in DOMAIN tempfiles /\ decodes
         THEN /\ clips' = AppendClip(clips, tempfiles[wav_file])
              /\ idx' = idx + 1
              /\ pc' = "loop"
              /\ UNCHANGED <<error, raised>>
         ELSE /\ RaiseInLoop("ClipLoadError")
              /\ UNCHANGED <<clips, idx>>
    /\ LogPhase
    /\ UNCHANGED <<unit_vars, config, dialogue_lines, piper_voices_to_download, tempdir,
                   tempfiles, cache, combined, output_file, synth_calls,
                   resolver_calls>>

\* _generate_audio_clips after the loop: "if not clips: raise", else return clips
CheckClips ==
    /\ pc = "loop"
    /\ idx > Len(dialogue_lines)
    /\ IF clips = <<>>
       THEN RaiseInLoop("NoClips")
       ELSE /\ pc' = "cleanup"
            /\ UNCHANGED <<error, raised>>
    /\ LogPhase
    /\ UNCHANGED <<unit_vars, config, dialogue_lines, piper_voices_to_download, idx, clips,
                   tempdir, tempfiles, cache, combined, output_file,
                   synth_calls, resolver_calls>>

\* mutant: the directory is removed on the normal return only
AfterReturnOnly(pending) == IF pending = None THEN "removed" ELSE "exists"

\* the state of tempdir after the finally clause, given the pending exception
AfterFinally(pending) == "removed"

\* _generate_audio_clips, finally: shutil.rmtree(tempdir); then the function
\* returns or the exception propagates out of process_script_to_audio
Cleanup ==
    /\ pc = "cleanup"
    /\ tempdir' = AfterFinally(error)
    /\ tempfiles' = IF tempdir' = "removed" THEN NoFiles ELSE tempfiles
    /\ pc' = IF error # None THEN "failed"
             ELSE IF entry = "process_script_to_audio" THEN "combine"
             ELSE "returned"
    /\ LogPhase
    /\ UNCHANGED <<unit_vars, config, dialogue_lines, piper_voices_to_download, idx, clips,
                   cache, combined, output_file, error, raised, synth_calls,
                   resolver_calls>>

\* mutant: combined = seg + combined
RECURSIVE CombineReversed(_)
CombineReversed(cs) ==
    IF Len(cs) = 1 THEN cs[1]
    ELSE cs[Len(cs)] \o CombineReversed(SubSeq(cs, 1, Len(cs) - 1))

\* _combine_audio_clips: combined = clips[0]; for seg in clips[1:]: combined += seg
RECURSIVE CombineAudioClips(_)
CombineAudioClips(cs) ==
    IF Len(cs) = 1 THEN cs[1]
    ELSE CombineAudioClips(SubSeq(cs, 1, Len(cs) - 1)) \o cs[Len(cs)]

CombineClips ==
    /\ pc = "combine"
    /\ combined' = CombineAudioClips(clips)
    /\ pc' = "export"
    /\ LogPhase
    /\ UNCHANGED <<unit_vars, config, dialogue_lines, piper_voices_to_download, idx, clips,
                   tempdir, tempfiles, cache, output_file, error, raised,
                   synth_calls, resolver_calls>>

ExportOutcomes == {"ok", "open_error", "write_error"}

\* audio.export(output_path, format=OUTPUT_FORMAT): the file at output_path
\* is opened for writing and the encoded audio is written into it
ExportFile(f, outcome) ==
    CASE outcome = "open_error"  -> f
      [] outcome = "write_error" -> "partial"
      [] OTHER                   -> "complete"

\* _export_audio
ExportAudio ==
    /\ pc = "export"
    /\ \E outcome \in ExportOutcomes :
         /\ output_file' = ExportFile(output_file, outcome)
         /\ IF outcome = "ok"
            THEN /\ pc' = "done"
                 /\ UNCHANGED <<error, raised>>
            ELSE /\ error' = "AssemblyError"
                 /\ raised' = raised \cup {Raised("AssemblyError")}
                 /\ pc' = "failed"
    /\ LogPhase
    /\ UNCHANGED <<unit_vars, config, dialogue_lines, piper_voices_to_download, idx, clips,
                   tempdir, tempfiles, cache, combined, synth_calls,
                   resolver_calls>>

Next ==
    \/ ValidateScript
    \/ PredownloadScan
    \/ PredownloadProbe
    \/ Mkdtemp
    \/ SynthesizeLine
    \/ LoadClip
    \/ CheckClips
    \/ Cleanup
    \/ CombineClips
    \/ ExportAudio

Spec == Init /\ [][Next]_vars

-----------------------------------------------------------------------------
(* Text: a Python str is the sequence of its characters *)

UpperLetters ==
    <<"A", "B", "C", "D", "E", "F", "G", "H", "I", "J", "K", "L", "M", "N",
    "O", "P", "Q", "R", "S", "T", "U", "V", "W", "X", "Y", "Z">>

LowerLetters ==
    <<"a", "b", "c", "d", "e", "f", "g", "h", "i", "j", "k", "l", "m", "n",
    "o", "p", "q", "r", "s", "t", "u", "v", "w", "x", "y", "z">>

Range(s) == {s[i] : i \in DOMAIN s}

Upper == Range(UpperLetters)

Lower == Range(LowerLetters)

Digit == {"0", "1", "2", "3", "4", "5", "6", "7", "8", "9"}

\* the character ` (U+0060), which a TLA+ string cannot contain
Backtick == "grave"

\* the characters str.strip() removes and \s matches
Whitespace == {" ", "\t", "\n", "\r"}

Min(S) == CHOOSE x \in S : \A y \in S : x <= y

\* s[i:] with i counted from 1
From(s, i) == SubSeq(s, i, Len(s))

\* str.lower() of one character
LowerChar(c) ==
    IF c \in Upper
    THEN LowerLetters[CHOOSE i \in DOMAIN UpperLetters : UpperLetters[i] = c]
    ELSE c

\* str.lower()
ToLower(s) == [i \in DOMAIN s |-> LowerChar(s[i])]

\* str.startswith(prefix)
HasPrefix(s, prefix) ==
    Len(prefix) <= Len(s) /\ SubSeq(s, 1, Len(prefix)) = prefix

\* "part in s"
Contains(s, part) ==
    \E i \in 1..(Len(s) - Len(part) + 1) : SubSeq(s, i, i + Len(part) - 1) = part

\* the first position at or after i whose character is outside cls
RECURSIVE SkipWhile(_, _, _)
SkipWhile(s, i, cls) ==
    IF i <= Len(s) /\ s[i] \in cls THEN SkipWhile(s, i + 1, cls) ELSE i

\* the last position at or before i whose character is outside cls
RECURSIVE SkipBack(_, _, _)
SkipBack(s, i, cls) ==
    IF i >= 1 /\ s[i] \in cls THEN SkipBack(s, i - 1, cls) ELSE i

\* str.strip(chars)
StripChars(s, chars) == SubSeq(s, SkipWhile(s, 1, chars), SkipBack(s, Len(s), chars))

\* str.strip()
Strip(s) == StripChars(s, Whitespace)

\* str.isdigit()
IsDigit(s) == s # <<>> /\ \A i \in DOMAIN s : s[i] \in Digit

\* str.splitlines() for "\n" line ends
RECURSIVE SplitLines(_)
SplitLines(s) ==
    LET ends == {i \in DOMAIN s : s[i] = "\n"} IN
    IF s = <<>> THEN <<>>
    ELSE IF ends = {} THEN <<s>>
    ELSE <<SubSeq(s, 1, Min(ends) - 1)>> \o SplitLines(From(s, Min(ends) + 1))

\* "\n".join(ls)
RECURSIVE JoinLines(_)
JoinLines(ls) ==
    IF ls = <<>> THEN <<>>
    ELSE IF Len(ls) = 1 THEN ls[1]
    ELSE ls[1] \o <<"\n">> \o JoinLines(Tail(ls))

-----------------------------------------------------------------------------
(* ScriptParser: validate_and_preview_script *)

IdentifierRest == Upper \cup Digit \cup {"_"}

\* self.patterns, in list order: the class of the first character of the
\* speaker, the class of its other characters, and the number of optional "*"
\* accepted on each side of it
patterns == <<
    [first |-> Upper, rest |-> IdentifierRest, stars |-> 0],
    [first |-> Upper \cup Lower, rest |-> IdentifierRest \cup Lower, stars |-> 0],
    [first |-> Upper, rest |-> IdentifierRest, stars |-> 2] >>

NoMatch == [matched |-> FALSE]

\* re.match(pattern, line): ^ \*?\*? (first rest*) \*?\*? \s* : \s* (.*)
\* ; every class is followed by a character outside it, so each greedy run is
\* the longest one
ReMatch(pattern, line) ==
    LET a == SkipWhile(line, 1, {"*"})
        b == SkipWhile(line, a + 1, pattern.rest)
        c == SkipWhile(line, b, {"*"})
        d == SkipWhile(line, c, Whitespace)
        e == SkipWhile(line, d + 1, Whitespace)
    IN  IF /\ a - 1 <= pattern.stars
           /\ a <= Len(line) /\ line[a] \in pattern.first
           /\ c - b <= pattern.stars
           /\ d <= Len(line) /\ line[d] = ":"
        THEN [matched |-> TRUE, speaker |-> SubSeq(line, a, b - 1),
              text |-> From(line, e)]
        ELSE NoMatch

\* mutant: no skip predicate
NeverSkip(line) == FALSE

\* mutant: only the predicates on the start of the line
SkipAtStartOnly(line) ==
    \E mark \in {<<Backtick, Backtick, Backtick>>, <<"-">>, <<"*">>, <<"#">>,
                  <<"(">>, <<"[">>, <<"<">>, <<"{">>, <<"/", "/">>} :
        HasPrefix(line, mark)

\* _should_skip_line: any(pattern(line) for pattern in self.skip_patterns)
ShouldSkipLine(line) ==
    \/ HasPrefix(line, <<Backtick, Backtick, Backtick>>)
    \/ HasPrefix(line, <<"-">>)
    \/ HasPrefix(line, <<"*">>)
    \/ HasPrefix(line, <<"#">>)
    \/ HasPrefix(line, <<"(">>)
    \/ HasPrefix(line, <<"[">>)
    \/ HasPrefix(line, <<"<">>)
    \/ HasPrefix(line, <<"{">>)
    \/ Contains(line, <<"d", "e", "f", " ">>)
    \/ Contains(line, <<"r", "e", "t", "u", "r", "n">>)
    \/ HasPrefix(line, <<"t", "e", "x", "t", ":">>)
    \/ HasPrefix(line, <<"s", "p", "e", "a", "k", "e", "r", ":">>)
    \/ HasPrefix(line, <<"v", "o", "i", "c", "e", ":">>)
    \/ Contains(ToLower(line), <<"t", "r", "a", "n", "s", "c", "r", "i", "p", "t", ":">>)
    \/ Contains(ToLower(line), <<"d", "i", "a", "l", "o", "g", "u", "e", ":">>)
    \/ Strip(line) \in {<<Backtick, Backtick, Backtick>>, <<"-", "-", "-">>, <<"=", "=", "=">>, <<"*", "*", "*">>}
    \/ HasPrefix(line, <<"N", "o", "t", "e", ":">>)
    \/ HasPrefix(line, <<"E", "x", "a", "m", "p", "l", "e", ":">>)
    \/ Contains(line, <<"O", "U", "T", "P", "U", "T", ":">>)
    \/ Contains(line, <<"I", "N", "P", "U", "T", ":">>)
    \/ Len(Strip(line)) < 3
    \/ IsDigit(line)
    \/ HasPrefix(line, <<"/", "/">>)

\* self.text_prefixes_to_remove, in list order
text_prefixes_to_remove == <<
    <<"t", "e", "x", "t", ":">>, <<"T", "e", "x", "t", ":">>,
    <<"T", "E", "X", "T", ":">>,
    <<Backtick, Backtick, Backtick, "t", "e", "x", "t">>,
    <<Backtick, Backtick, Backtick, "T", "e", "x", "t">>,
    <<Backtick, Backtick, Backtick, "T", "E", "X", "T">>,
    <<Backtick, Backtick, Backtick>>, <<"t", "e", "x", "t">>,
    <<"T", "E", "X", "T">>, <<"v", "o", "i", "c", "e", ":">>,
    <<"V", "o", "i", "c", "e", ":">>, <<"V", "O", "I", "C", "E", ":">>,
    <<"s", "p", "e", "a", "k", "e", "r", ":">>,
    <<"S", "p", "e", "a", "k", "e", "r", ":">>,
    <<"S", "P", "E", "A", "K", "E", "R", ":">>,
    <<"d", "i", "a", "l", "o", "g", "u", "e", ":">>,
    <<"D", "i", "a", "l", "o", "g", "u", "e", ":">>,
    <<"D", "I", "A", "L", "O", "G", "U", "E", ":">>,
    <<"s", "a", "y", "s", ":">>, <<"S", "a", "y", "s", ":">>,
    <<"S", "A", "Y", "S", ":">>, <<"s", "p", "e", "a", "k", "s", ":">>,
    <<"S", "p", "e", "a", "k", "s", ":">>,
    <<"S", "P", "E", "A", "K", "S", ":">>,
    <<"o", "u", "t", "p", "u", "t", ":">>,
    <<"O", "u", "t", "p", "u", "t", ":">>,
    <<"O", "U", "T", "P", "U", "T", ":">>,
    <<"r", "e", "s", "p", "o", "n", "s", "e", ":">>,
    <<"R", "e", "s", "p", "o", "n", "s", "e", ":">>,
    <<"R", "E", "S", "P", "O", "N", "S", "E", ":">> >>

\* _clean_dialogue_text: strip, remove the first prefix of the list the text
\* starts with, strip again
CleanDialogueText(text) ==
    LET t == Strip(text)
        hits == {k \in DOMAIN text_prefixes_to_remove :
                    HasPrefix(t, text_prefixes_to_remove[k])}
    IN  IF hits = {} THEN t
        ELSE Strip(From(t, Len(text_prefixes_to_remove[Min(hits)]) + 1))

\* invalid_content of _is_valid_dialogue
invalid_content == {
    <<"t", "e", "x", "t">>, <<"v", "o", "i", "c", "e">>,
    <<"s", "p", "e", "a", "k", "e", "r">>,
    <<"d", "i", "a", "l", "o", "g", "u", "e">>, <<"s", "a", "y", "s">>,
    <<"s", "p", "e", "a", "k", "s">>, <<".", ".", ".">>, <<"-", "-", "-">>,
    <<"*", "*", "*">>, <<Backtick, Backtick, Backtick>> }

\* mutant: only the length of the text is checked
LongEnough(text) == Len(text) >= 5

\* _is_valid_dialogue
IsValidDialogue(text) ==
    /\ text # <<>>
    /\ ~(ToLower(text) \in invalid_content \/ Len(text) < 5)

\* mutant: the speaker is compared without regard to case
SpeakerIgnoringCase(speaker, expected_speakers) ==
    \E s \in expected_speakers : ToLower(s) = ToLower(speaker)

\* speaker in expected_speakers
SpeakerExpected(speaker, expected_speakers) == speaker \in expected_speakers

\* the loop over self.patterns for one line, from pattern k on: the first
\* pattern that matches with an expected speaker and a valid cleaned text
RECURSIVE TryPatterns(_, _, _)
TryPatterns(line, expected_speakers, k) ==
    IF k > Len(patterns) THEN NoMatch
    ELSE LET m == ReMatch(patterns[k], line)
             speaker == Strip(StripChars(m.speaker, {"*"}))
             text == CleanDialogueText(m.text)
         IN  IF /\ m.matched
                /\ SpeakerExpected(speaker, expected_speakers)
                /\ IsValidDialogue(text)
             THEN [matched |-> TRUE, speaker |-> speaker, text |-> text]
             ELSE TryPatterns(line, expected_speakers, k + 1)

-----------------------------------------------------------------------------
(* One call of validate_and_preview_script, line by line *)

\* the number of physical lines of a script
MaxScriptLines == 2

\* "HOST"
Host == <<"H", "O", "S", "T">>

\* "GUEST"
Guest == <<"G", "U", "E", "S", "T">>

\* "Hello there"
Utterance == <<"H", "e", "l", "l", "o", " ", "t", "h", "e", "r", "e">>

\* "HOST: Welcome!"
HostWelcome ==
    <<"H", "O", "S", "T", ":", " ", "W", "e", "l", "c", "o", "m", "e", "!">>

\* "``` def f(): return 1"
FencedCode ==
    <<Backtick, Backtick, Backtick, " ", "d", "e", "f", " ", "f", "(", ")",
    ":", " ", "r", "e", "t", "u", "r", "n", " ", "1">>

\* "HOST: text: Hello there"
TextPrefixed ==
    <<"H", "O", "S", "T", ":", " ", "t", "e", "x", "t", ":", " ", "H", "e",
    "l", "l", "o", " ", "t", "h", "e", "r", "e">>

\* "HOST: voice: Hello there"
VoicePrefixed ==
    <<"H", "O", "S", "T", ":", " ", "v", "o", "i", "c", "e", ":", " ", "H",
    "e", "l", "l", "o", " ", "t", "h", "e", "r", "e">>

\* "HOST: says: Hello there"
SaysPrefixed ==
    <<"H", "O", "S", "T", ":", " ", "s", "a", "y", "s", ":", " ", "H", "e",
    "l", "l", "o", " ", "t", "h", "e", "r", "e">>

\* "HOST: dialogue: Hello there"
DialoguePrefixed ==
    <<"H", "O", "S", "T", ":", " ", "d", "i", "a", "l", "o", "g", "u", "e",
    ":", " ", "H", "e", "l", "l", "o", " ", "t", "h", "e", "r", "e">>

\* "HOST: ```text Hello there"
FencePrefixed ==
    <<"H", "O", "S", "T", ":", " ", Backtick, Backtick, Backtick, "t", "e",
    "x", "t", " ", "H", "e", "l", "l", "o", " ", "t", "h", "e", "r", "e">>

\* "NARRATOR: Hello there"
NarratorLine ==
    <<"N", "A", "R", "R", "A", "T", "O", "R", ":", " ", "H", "e", "l", "l",
    "o", " ", "t", "h", "e", "r", "e">>

\* "Host: Hello there"
MixedCaseSpeaker ==
    <<"H", "o", "s", "t", ":", " ", "H", "e", "l", "l", "o", " ", "t", "h",
    "e", "r", "e">>

\* "HOST: Voice"
ArtifactToken == <<"H", "O", "S", "T", ":", " ", "V", "o", "i", "c", "e">>

\* "HOST: Hi"
ShortText == <<"H", "O", "S", "T", ":", " ", "H", "i">>

\* "HOST: text"
BarePrefix == <<"H", "O", "S", "T", ":", " ", "t", "e", "x", "t">>

\* "  "
BlankLine == <<" ", " ">>

\* "  GUEST : Nice to be here  "
PaddedGuest ==
    <<" ", " ", "G", "U", "E", "S", "T", " ", ":", " ", "N", "i", "c", "e",
    " ", "t", "o", " ", "b", "e", " ", "h", "e", "r", "e", " ", " ">>

\* "HOST: I will return soon"
ReturnLine ==
    <<"H", "O", "S", "T", ":", " ", "I", " ", "w", "i", "l", "l", " ", "r",
    "e", "t", "u", "r", "n", " ", "s", "o", "o", "n">>

\* "**HOST**: Welcome!"
BoldSpeaker ==
    <<"*", "*", "H", "O", "S", "T", "*", "*", ":", " ", "W", "e", "l", "c",
    "o", "m", "e", "!">>

\* "HOST**: Welcome!"
TrailingBold ==
    <<"H", "O", "S", "T", "*", "*", ":", " ", "W", "e", "l", "c", "o", "m",
    "e", "!">>

\* "Some narration"
Narration ==
    <<"S", "o", "m", "e", " ", "n", "a", "r", "r", "a", "t", "i", "o", "n">>

\* "2024"
Numeral == <<"2", "0", "2", "4">>

\* the physical lines scripts are made of
ScriptLines == {
    HostWelcome, FencedCode, TextPrefixed, VoicePrefixed, SaysPrefixed,
    DialoguePrefixed, FencePrefixed, NarratorLine, MixedCaseSpeaker,
    ArtifactToken, ShortText, BarePrefix, BlankLine, PaddedGuest, ReturnLine,
    BoldSpeaker, TrailingBold, Narration, Numeral }

\* the expected_speakers lists
ExpectedSpeakerSets == {{}, {Host}, {Host, Guest}}

\* no run of the pipeline is in progress
NoRun ==
    /\ entry = None
    /\ speaker_voices = <<>>
    /\ speaker_engines = <<>>
    /\ speed_scale = NormalSpeed
    /\ OUTPUT_FORMAT = "wav"
    /\ script = <<>>
    /\ pc = "idle"
    /\ dialogue_lines = <<>>
    /\ piper_voices_to_download = {}
    /\ idx = 1
    /\ clips = <<>>
    /\ tempdir = "none"
    /\ tempfiles = NoFiles
    /\ cache = EmptyCache
    /\ combined = <<>>
    /\ output_file = "absent"
    /\ error = None
    /\ raised = {}
    /\ phase_log = <<>>
    /\ synth_calls = <<>>
    /\ resolver_calls = <<>>

InitParse ==
    /\ NoRun
    /\ \E ls \in SeqsUpTo(ScriptLines, MaxScriptLines), es \in ExpectedSpeakerSets :
          parser = [pc |-> "call", script |-> JoinLines(ls),
                    expected_speakers |-> es, lines |-> <<>>, line_num |-> 0,
                    dialogue_lines |-> <<>>, unmatched_lines |-> <<>>,
                    sources |-> <<>>, error |-> None]
    /\ backend_call = Idle
    /\ engine_check = Idle
    /\ resolver = Idle
    /\ workers = Idle
    /\ export_call = Idle

\* enumerate(script.splitlines(), 1)
ParserEnter ==
    /\ parser.pc = "call"
    /\ parser' = [parser EXCEPT !.pc = "line",
                                !.lines = SplitLines(parser.script),
                                !.line_num = 1]
    /\ UNCHANGED <<run_vars, backend_call, engine_check, resolver, workers, export_call>>

\* f"Line {line_num}: {line}"
Unmatched(line_num, line) == [line_num |-> line_num, line |-> line]

\* mutant: dialogue_lines.insert(0, ...)
PrependDialogue(ds, speaker, text) == <<<<speaker, text>>>> \o ds

\* mutant: a line of the speaker of the previous dialogue line is merged into it
MergeDialogue(ds, speaker, text) ==
    IF ds # <<>> /\ ds[Len(ds)][1] = speaker
    THEN [ds EXCEPT ![Len(ds)] = <<speaker, @[2] \o <<" ">> \o text>>]
    ELSE Append(ds, <<speaker, text>>)

\* dialogue_lines.append((speaker, text))
AppendDialogue(ds, speaker, text) == Append(ds, <<speaker, text>>)

\* one iteration of the loop over the physical lines; sources records the
\* number of the line each dialogue line was made from
ParseLine ==
    /\ parser.pc = "line"
    /\ parser.line_num <= Len(parser.lines)
    /\ LET n == parser.line_num
           line == Strip(parser.lines[n])
           m == TryPatterns(line, parser.expected_speakers, 1)
           next == [parser EXCEPT !.line_num = n + 1]
           unmatched == [next EXCEPT !.unmatched_lines =
                            Append(parser.unmatched_lines, Unmatched(n, line))]
       IN  parser' =
              IF line = <<>> THEN next
              ELSE IF ShouldSkipLine(line) THEN unmatched
              ELSE IF m.matched
                   THEN [next EXCEPT
                           !.dialogue_lines =
                               AppendDialogue(parser.dialogue_lines, m.speaker, m.text),
                           !.sources = Append(parser.sources, n)]
              ELSE IF Len(line) > 5 THEN unmatched
              ELSE next
    /\ UNCHANGED <<run_vars, backend_call, engine_check, resolver, workers, export_call>>

\* mutant: return whatever was found
NeverEmpty(ds) == FALSE

\* not dialogue_lines
NoDialogue(ds) == ds = <<>>

\* after the loop: raise RuntimeError("No parseable dialogue lines found ...")
\* or return dialogue_lines
ParserFinish ==
    /\ parser.pc = "line"
    /\ parser.line_num > Len(parser.lines)
    /\ parser' = IF NoDialogue(parser.dialogue_lines)
                 THEN [parser EXCEPT !.pc = "raised", !.error = "NoDialogueFound"]
                 ELSE [parser EXCEPT !.pc = "returned"]
    /\ UNCHANGED <<run_vars, backend_call, engine_check, resolver, workers, export_call>>

NextParse ==
    \/ ParserEnter
    \/ ParseLine
    \/ ParserFinish

SpecParse == InitParse /\ [][NextParse]_vars

-----------------------------------------------------------------------------
(* TTSEngine.clean_text_for_tts and the text each backend hands to its engine *)

\* the first position at or after i whose character is in stops
RECURSIVE SkipTo(_, _, _)
SkipTo(s, i, stops) ==
    IF i <= Len(s) /\ s[i] \notin stops THEN SkipTo(s, i + 1, stops) ELSE i

\* s has part at position i
HasAt(s, i, part) ==
    i >= 1 /\ i + Len(part) - 1 <= Len(s) /\ SubSeq(s, i, i + Len(part) - 1) = part

\* open /? word [^close]* close, ignoring case, with \s* after open when spaced
TagEnd(s, i, open, spaced, word, close) ==
    LET a == IF spaced THEN SkipWhile(s, i + Len(open), Whitespace) ELSE i + Len(open)
        b == IF HasAt(s, a, <<"/">>) THEN a + 1 ELSE a
        c == SkipTo(s, b + Len(word), {close[1]})
    IN  IF /\ HasAt(s, i, open)
           /\ b + Len(word) - 1 <= Len(s)
           /\ ToLower(SubSeq(s, b, b + Len(word) - 1)) = word
           /\ HasAt(s, c, close)
        THEN c + Len(close) ELSE 0

\* mark ([^mark]+) mark, for a mark of equal characters
WrappedEnd(s, i, mark) ==
    LET c == SkipTo(s, i + Len(mark), {mark[1]}) IN
    IF HasAt(s, i, mark) /\ c > i + Len(mark) /\ HasAt(s, c, mark)
    THEN c + Len(mark) ELSE 0

\* first+ then rest*
RunEnd(s, i, first, rest) ==
    IF i <= Len(s) /\ s[i] \in first
    THEN SkipWhile(s, SkipWhile(s, i, first), rest) ELSE 0

\* "**"
Stars == <<"*", "*">>

\* "prosody"
Prosody == <<"p", "r", "o", "s", "o", "d", "y">>

\* "procity"
Procity == <<"p", "r", "o", "c", "i", "t", "y">>

\* "speak"
Speak == <<"s", "p", "e", "a", "k">>

\* the position after the match of a pattern that starts at i (0 when there
\* is none; no match is empty)
MatchEnd(pattern, s, i) ==
    CASE pattern.kind = "tag" ->
            TagEnd(s, i, pattern.open, pattern.spaced, pattern.word, pattern.close)
      [] pattern.kind = "wrapped" -> WrappedEnd(s, i, pattern.mark)
      [] pattern.kind = "run" -> RunEnd(s, i, pattern.first, pattern.rest)

\* the replacement of the match s[i..e-1]: '', r'\1' or ' '
Replacement(pattern, s, i, e) ==
    CASE pattern.kind = "tag" -> <<>>
      [] pattern.kind = "wrapped" ->
            SubSeq(s, i + Len(pattern.mark), e - 1 - Len(pattern.mark))
      [] pattern.kind = "run" -> pattern.repl

\* re.sub(pattern, repl, s), from position i on
RECURSIVE ReSub(_, _, _)
ReSub(pattern, s, i) ==
    IF i > Len(s) THEN <<>>
    ELSE LET e == MatchEnd(pattern, s, i) IN
         IF e > i THEN Replacement(pattern, s, i, e) \o ReSub(pattern, s, e)
         ELSE <<s[i]>> \o ReSub(pattern, s, i + 1)

Tag(open, spaced, word, close) ==
    [kind |-> "tag", open |-> open, spaced |-> spaced, word |-> word,
     close |-> close]

Wrapped(mark) == [kind |-> "wrapped", mark |-> mark]

Run(first, rest, repl) ==
    [kind |-> "run", first |-> first, rest |-> rest, repl |-> repl]

\* the substitutions of clean_text_for_tts, in the order of the code
substitutions == <<
    Tag(Stars, TRUE, Prosody, Stars),
    Tag(Stars, TRUE, Procity, Stars),
    Tag(<<"<">>, FALSE, Prosody, <<">">>),
    Tag(<<"<">>, FALSE, Speak, <<">">>),
    Wrapped(Stars),
    Wrapped(<<"*">>),
    Wrapped(<<Backtick>>),
    Run({"*"}, {}, <<>>),
    Run({"#"}, Whitespace, <<>>),
    Run(Whitespace, {}, <<" ">>) >>

\* text after the first k substitutions
RECURSIVE Substituted(_, _)
Substituted(text, k) ==
    IF k = 0 THEN text
    ELSE ReSub(substitutions[k], Substituted(text, k - 1), 1)

\* TTSEngine.clean_text_for_tts
CleanTextForTts(text) == Strip(Substituted(text, Len(substitutions)))

\* "Hello there"
PlainText == <<"H", "e", "l", "l", "o", " ", "t", "h", "e", "r", "e">>

\* "**Great** to be here"
BoldText ==
    <<"*", "*", "G", "r", "e", "a", "t", "*", "*", " ", "t", "o", " ", "b",
    "e", " ", "h", "e", "r", "e">>

\* "# Welcome  back"
HeaderText ==
    <<"#", " ", "W", "e", "l", "c", "o", "m", "e", " ", " ", "b", "a", "c", "k">>

\* "<prosody rate=slow>Hello</prosody> there"
TaggedText ==
    <<"<", "p", "r", "o", "s", "o", "d", "y", " ", "r", "a", "t", "e", "=",
    "s", "l", "o", "w", ">", "H", "e", "l", "l", "o", "<", "/", "p", "r",
    "o", "s", "o", "d", "y", ">", " ", "t", "h", "e", "r", "e">>

\* "**prosody rate** Hi *there*"
BrokenTagText ==
    <<"*", "*", "p", "r", "o", "s", "o", "d", "y", " ", "r", "a", "t", "e",
    "*", "*", " ", "H", "i", " ", "*", "t", "h", "e", "r", "e", "*">>

\* "Use `pip` ***now"
CodeText ==
    <<"U", "s", "e", " ", Backtick, "p", "i", "p", Backtick, " ", "*", "*",
    "*", "n", "o", "w">>

\* the texts synthesize is called with
Texts == {PlainText, BoldText, HeaderText, TaggedText, BrokenTagText, CodeText}

\* every backend create_engine can return
Backends == RegisteredEngines \cup LegacyEngines

\* the text the backend passes to its engine: EdgeTTS.synthesize calls
\* clean_text_for_tts, the other backends pass the argument on
EngineInput(engine, text) ==
    IF engine = "edge" THEN CleanTextForTts(text) ELSE text

InitSynth ==
    /\ NoRun
    /\ parser = Idle
    /\ \E e \in Backends, t \in Texts, sp \in Speeds :
          backend_call = [pc |-> "call", engine |-> e, text |-> t,
                          speed_scale |-> sp, handed |-> None]
    /\ engine_check = Idle
    /\ resolver = Idle
    /\ workers = Idle
    /\ export_call = Idle

\* engine.synthesize(text, voice, output_path, speed_scale) up to the call of
\* the underlying engine
BackendCall ==
    /\ backend_call.pc = "call"
    /\ backend_call' = [backend_call EXCEPT
                           !.pc = "engine",
                           !.handed = EngineInput(backend_call.engine, backend_call.text)]
    /\ UNCHANGED <<run_vars, parser, engine_check, resolver, workers, export_call>>

NextSynth == BackendCall

SpecSynth == InitSynth /\ [][NextSynth]_vars

-----------------------------------------------------------------------------
(* validate_tts_engines *)

\* a dict as the sequence of its (key, value) items in insertion order
Items(K, V) ==
    {d \in SeqsUpTo(K \X V, Cardinality(K)) :
        \A i, j \in DOMAIN d : i # j => d[i][1] # d[j][1]}

\* the engine keys of the --engines argument
EngineArgs == {"piper", "edge", "bogus"}

\* TTSFactory.get_available_engines: an entry for every registered and legacy
\* engine; is_available of piper and edge depends on the machine
AvailabilityMaps ==
    {[e \in Backends |-> IF e = "piper" THEN p ELSE IF e = "edge" THEN q ELSE FALSE] :
        p \in BOOLEAN, q \in BOOLEAN}

\* the print before a return False
Message(kind, engine, speaker) ==
    [kind |-> kind, engine |-> engine, speaker |-> speaker]

\* validate_tts_engines: the loop over engine_map.items() from item k on
RECURSIVE ValidateTtsEngines(_, _, _, _)
ValidateTtsEngines(engine_map, speaker_map, available_engines, k) ==
    IF k > Len(engine_map) THEN [result |-> TRUE, message |-> None]
    ELSE LET speaker == engine_map[k][1]
             engine  == engine_map[k][2]
         IN  IF speaker \notin DOMAIN speaker_map
             THEN [result |-> FALSE,
                   message |-> Message("unknown speaker", None, speaker)]
             ELSE IF engine \notin DOMAIN available_engines
             THEN [result |-> FALSE,
                   message |-> Message("unknown engine", engine, speaker)]
             ELSE IF ~available_engines[engine]
             THEN [result |-> FALSE,
                   message |-> Message("not available", engine, None)]
             ELSE ValidateTtsEngines(engine_map, speaker_map, available_engines, k + 1)

InitEngines ==
    /\ NoRun
    /\ parser = Idle
    /\ backend_call = Idle
    /\ \E em \in Items(Speakers, EngineArgs), sp \in SUBSET Speakers \ {{}},
          av \in AvailabilityMaps :
          engine_check = [pc |-> "call", engine_map |-> em,
                          speaker_map |-> [s \in sp |-> "en_US-amy-medium"],
                          available_engines |-> av,
                          result |-> None, message |-> None]
    /\ resolver = Idle
    /\ workers = Idle
    /\ export_call = Idle

\* main: if not validate_tts_engines(engine_map, speaker_map): return 1
ValidateEngines ==
    /\ engine_check.pc = "call"
    /\ LET r == ValidateTtsEngines(engine_check.engine_map, engine_check.speaker_map,
                                   engine_check.available_engines, 1)
       IN  engine_check' = [engine_check EXCEPT !.pc = "done",
                                                !.result = r.result,
                                                !.message = r.message]
    /\ UNCHANGED <<run_vars, parser, backend_call, resolver, workers, export_call>>

NextEngines == ValidateEngines

SpecEngines == InitEngines /\ [][NextEngines]_vars

\* speaker_engines.get(speaker, "piper") of _generate_audio_clips
EngineUsed(engine_map, speaker) ==
    IF \E k \in DOMAIN engine_map : engine_map[k][1] = speaker
    THEN engine_map[CHOOSE k \in DOMAIN engine_map : engine_map[k][1] = speaker][2]
    ELSE "piper"

-----------------------------------------------------------------------------
(* The resolver over voice names as character sequences: repeated calls of *)
(* PiperTTS._ensure_voice_available on one PIPER_DATA_DIR, and the         *)
(* existence check of AudioProcessor._predownload_piper_voices             *)

\* "en_US-amy-medium"
AmyMedium ==
    <<"e", "n", "_", "U", "S", "-", "a", "m", "y", "-", "m", "e", "d", "i",
    "u", "m">>

\* "en_GB-alan-low"
AlanLow ==
    <<"e", "n", "_", "G", "B", "-", "a", "l", "a", "n", "-", "l", "o", "w">>

\* "de_DE-thorsten-low"
ThorstenLow ==
    <<"d", "e", "_", "D", "E", "-", "t", "h", "o", "r", "s", "t", "e", "n",
    "-", "l", "o", "w">>

\* "custom"
Custom == <<"c", "u", "s", "t", "o", "m">>

\* "AriaNeural"
AriaNeural == <<"A", "r", "i", "a", "N", "e", "u", "r", "a", "l">>

VoiceNames == {AmyMedium, AlanLow, ThorstenLow, Custom, AriaNeural}

\* len(voice_name.split("-")) - 1
Dashes(v) == Cardinality({i \in DOMAIN v : v[i] = "-"})

\* parse_voice_name: the exception it raises, or None when it returns a dict
ParseVoiceName(v) ==
    IF Dashes(v) >= 2 THEN None
    ELSE IF Contains(v, <<"N", "e", "u", "r", "a", "l">>)
         THEN (IF Dashes(v) = 0 THEN "IndexError" ELSE None)
         ELSE None

\* the naming conventions _download_voice builds a download path for
RecognizedConvention(v) ==
    HasPrefix(v, <<"e", "n", "_", "U", "S", "-">>) \/ HasPrefix(v, <<"e", "n", "_", "G", "B", "-">>)

\* _download_voice on a voice name: parse_voice_name runs first, outside the try
DownloadNamedVoice(c, v, dl) ==
    IF ParseVoiceName(v) # None
    THEN [cache |-> c, requests |-> 0, raised |-> ParseVoiceName(v)]
    ELSE IF ~RecognizedConvention(v)
    THEN [cache |-> c, requests |-> 0, raised |-> "UnsupportedVoiceFormat"]
    ELSE LET m == DownloadFile(c[v].onnx, dl[1]) IN
         IF m.raised # None
         THEN [cache |-> [c EXCEPT ![v].onnx = m.file], requests |-> 1,
               raised |-> m.raised]
         ELSE LET j == DownloadFile(c[v].json, dl[2]) IN
              [cache |-> [c EXCEPT ![v].onnx = m.file, ![v].json = j.file],
               requests |-> 2, raised |-> j.raised]

\* _predownload_piper_voices: the voices it does not add to
\* piper_voices_to_download (onnx_file.exists())
AlreadyPresent(c) == {v \in DOMAIN c : Exists(c[v].onnx)}

InitResolve ==
    /\ NoRun
    /\ parser = Idle
    /\ backend_call = Idle
    /\ engine_check = Idle
    /\ resolver = [pc |-> "ready",
                   cache |-> [v \in VoiceNames |->
                                 [onnx |-> "absent", json |-> "absent"]],
                   skipped |-> {}, call |-> <<>>]
    /\ workers = Idle
    /\ export_call = Idle

\* a run starts: pre-resolution scans the cache for the voices of the run
PredownloadCheck ==
    /\ resolver' = [resolver EXCEPT !.skipped = AlreadyPresent(resolver.cache),
                                    !.call = <<>>]
    /\ UNCHANGED <<run_vars, parser, backend_call, engine_check, workers,
                   export_call>>

\* one call of _ensure_voice_available(v)
EnsureVoice ==
    /\ \E v \in VoiceNames, dl \in DownloadOutcomes \X DownloadOutcomes :
          LET c == resolver.cache
              r == IF CacheHit(c, v)
                   THEN [cache |-> c, requests |-> 0, raised |-> None]
                   ELSE DownloadNamedVoice(c, v, dl)
          IN  resolver' = [resolver EXCEPT
                  !.cache = r.cache,
                  !.call = <<[voice |-> v, before |-> c, hit |-> CacheHit(c, v),
                              skipped |-> v \in resolver.skipped,
                              requests |-> r.requests, raised |-> r.raised]>>]
    /\ UNCHANGED <<run_vars, parser, backend_call, engine_check, workers,
                   export_call>>

NextResolve == PredownloadCheck \/ EnsureVoice

SpecResolve == InitResolve /\ [][NextResolve]_vars

-----------------------------------------------------------------------------
(* Two concurrent callers of PiperTTS._ensure_voice_available for the same *)
(* voice on one PIPER_DATA_DIR (two runs, or two workers of one run).  The *)
(* code takes no lock: every statement of a caller may interleave with the *)
(* other caller's.                                                         *)

Callers == {1, 2}

\* the two files of the voice, in the order _download_voice writes them
VoiceFiles == <<"onnx", "json">>

\* a file on disk: its state, and the callers that hold it open for writing
ClosedFile(state) == [state |-> state, writers |-> {}]

InitWorkers ==
    /\ NoRun
    /\ parser = Idle
    /\ backend_call = Idle
    /\ engine_check = Idle
    /\ resolver = Idle
    /\ workers = [pc |-> [w \in Callers |-> "check"],
                  file |-> [w \in Callers |-> 1],
                  files |-> [f \in Range(VoiceFiles) |-> ClosedFile("absent")],
                  hit_open_file |-> [w \in Callers |-> FALSE]]
    /\ export_call = Idle

\* if onnx_file.exists() and json_file.exists(): return str(onnx_file)
CheckCache(w) ==
    /\ workers.pc[w] = "check"
    /\ LET hit == \A f \in Range(VoiceFiles) : Exists(workers.files[f].state)
       IN  workers' = [workers EXCEPT
               !.pc[w] = IF hit THEN "returned" ELSE "download",
               !.hit_open_file[w] =
                   hit /\ \E f \in Range(VoiceFiles) : workers.files[f].writers # {}]
    /\ UNCHANGED <<run_vars, parser, backend_call, engine_check, resolver,
                   export_call>>

\* _download_file up to open(output_path, "wb"): the request, raise_for_status,
\* and the open that truncates the file
OpenForWrite(w) ==
    /\ workers.pc[w] = "download"
    /\ \E outcome \in {"ok", "http_error"} :
          LET f == VoiceFiles[workers.file[w]] IN
          IF outcome = "http_error"
          THEN workers' = [workers EXCEPT !.pc[w] = "raised"]
          ELSE workers' = [workers EXCEPT
                   !.pc[w] = "writing",
                   !.files[f] = [state |-> "partial", writers |-> @.writers \cup {w}]]
    /\ UNCHANGED <<run_vars, parser, backend_call, engine_check, resolver,
                   export_call>>

\* _download_file from the first chunk to the close of the file: the file is
\* complete once no caller is still writing it
FinishWrite(w) ==
    /\ workers.pc[w] = "writing"
    /\ \E outcome \in {"ok", "stream_error"} :
          LET f    == VoiceFiles[workers.file[w]]
              left == workers.files[f].writers \ {w}
          IN  IF outcome = "stream_error"
              THEN workers' = [workers EXCEPT
                       !.pc[w] = "raised",
                       !.files[f] = [state |-> "partial", writers |-> left]]
              ELSE workers' = [workers EXCEPT
                       !.pc[w] = IF workers.file[w] = Len(VoiceFiles)
                                 THEN "returned" ELSE "download",
                       !.file[w] = IF workers.file[w] = Len(VoiceFiles)
                                   THEN @ ELSE @ + 1,
                       !.files[f] = [state |-> IF left = {} THEN "complete"
                                               ELSE "partial",
                                     writers |-> left]]
    /\ UNCHANGED <<run_vars, parser, backend_call, engine_check, resolver,
                   export_call>>

\* the caller's next call of _ensure_voice_available (the next dialogue line,
\* or the next run)
CallAgain(w) ==
    /\ workers.pc[w] \in {"returned", "raised"}
    /\ workers' = [workers EXCEPT !.pc[w] = "check", !.file[w] = 1,
                                  !.hit_open_file[w] = FALSE]
    /\ UNCHANGED <<run_vars, parser, backend_call, engine_check, resolver,
                   export_call>>

NextWorkers ==
    \E w \in Callers :
        CheckCache(w) \/ OpenForWrite(w) \/ FinishWrite(w) \/ CallAgain(w)

SpecWorkers == InitWorkers /\ [][NextWorkers]_vars

-----------------------------------------------------------------------------
(* AudioProcessor._export_audio and _show_duration_feedback.  The durations *)
(* are Python floats: IEEE-754 doubles, every operation rounded to nearest, *)
(* ties to even.                                                            *)

MaxTarget == 3

\* bits of the significand of a double
Significand == 53

\* a double x >= 0 is [bits, exp]: Significand bits, the most significant
\* first and 1, and the exponent of the last of them; 0.0 has no bits
Zero == [bits |-> <<>>, exp |-> 0]

Zeros(n) == [i \in 1..n |-> 0]

\* binary digits of an int n >= 0, most significant first
RECURSIVE Binary(_)
Binary(n) == IF n = 0 THEN <<>> ELSE Append(Binary(n \div 2), n % 2)

\* bits + 1
RECURSIVE Increment(_)
Increment(bits) ==
    IF bits = <<>> THEN <<1>>
    ELSE IF bits[Len(bits)] = 0 THEN [bits EXCEPT ![Len(bits)] = 1]
    ELSE Append(Increment(SubSeq(bits, 1, Len(bits) - 1)), 0)

\* the double nearest to bits * 2^exp (plus, when sticky, a nonzero fraction
\* of the last bit): round to nearest, ties to even
Round(bits, sticky, exp) ==
    LET n == Len(bits) IN
    IF n <= Significand
    THEN [bits |-> bits \o Zeros(Significand - n), exp |-> exp - (Significand - n)]
    ELSE LET keep  == SubSeq(bits, 1, Significand)
             guard == bits[Significand + 1]
             rest  == sticky \/ \E i \in (Significand + 2)..n : bits[i] = 1
             up    == guard = 1 /\ (rest \/ keep[Significand] = 1)
             kept  == IF up THEN Increment(keep) ELSE keep
         IN  [bits |-> SubSeq(kept, 1, Significand),
              exp  |-> exp + (n - Significand) + (Len(kept) - Significand)]

\* float(n) for an int n >= 0
Float(n) == IF n = 0 THEN Zero ELSE Round(Binary(n), FALSE, 0)

\* the digits of bits * k: digit i and the carry into digit i - 1, from the
\* least significant digit to the most significant (the test on Len evaluates
\* the digits before they are passed on; it never fails)
RECURSIVE Times(_, _, _, _, _)
Times(bits, k, i, carry, digits) ==
    IF i = 0 THEN Binary(carry) \o digits
    ELSE LET d    == bits[i] * k + carry
             next == <<d % 2>> \o digits
         IN  IF Len(next) <= Len(bits)
             THEN Times(bits, k, i - 1, d \div 2, next)
             ELSE next

\* k * x for an int k > 0 and a double x
Multiply(k, x) ==
    IF x.bits = <<>> THEN x
    ELSE Round(Times(x.bits, k, Len(x.bits), 0, <<>>), FALSE, x.exp)

\* long division of bits by k from position i on: the digits of the quotient
\* from its first 1 on, and the remainder (the test on Len evaluates the
\* digits before they are passed on; it never fails)
RECURSIVE LongDivision(_, _, _, _, _)
LongDivision(bits, k, i, r, q) ==
    IF i > Len(bits) THEN [q |-> q, r |-> r]
    ELSE LET r2    == 2 * r + bits[i]
             digit == IF r2 >= k THEN 1 ELSE 0
             next  == IF q = <<>> /\ digit = 0 THEN q ELSE Append(q, digit)
         IN  IF Len(next) <= i
             THEN LongDivision(bits, k, i + 1, r2 - digit * k, next)
             ELSE [q |-> next, r |-> r2 - digit * k]

\* x / k for a double x and an int k > 0: the quotient is carried two bits
\* past the significand before it is rounded
Divide(x, k) ==
    IF x.bits = <<>> THEN x
    ELSE LET extra == Len(Binary(k)) + 2
             d     == LongDivision(x.bits \o Zeros(extra), k, 1, 0, <<>>)
         IN  Round(d.q, d.r # 0, x.exp - extra)

\* x < y
Less(x, y) ==
    IF y.bits = <<>> THEN FALSE
    ELSE IF x.bits = <<>> THEN TRUE
    ELSE IF x.exp # y.exp THEN x.exp < y.exp
    ELSE \E i \in 1..Significand :
            /\ x.bits[i] < y.bits[i]
            /\ \A j \in 1..(i - 1) : x.bits[j] = y.bits[j]

\* the float literals 0.8 and 1.2: the doubles nearest to 8/10 and 12/10
Point8 == Divide(Float(8), 10)

OnePoint2 == Divide(Float(12), 10)

\* duration_minutes = len(audio) / 1000 / 60
DurationMinutes(len_audio) == Divide(Divide(Float(len_audio), 1000), 60)

\* _show_duration_feedback: the outcome it prints
ShowDurationFeedback(actual_minutes, target_minutes) ==
    IF Less(actual_minutes, Multiply(target_minutes, Point8)) THEN "shorter"
    ELSE IF Less(Multiply(target_minutes, OnePoint2), actual_minutes) THEN "longer"
    ELSE "close"

\* lengths of the audio buffer in ms: the two boundaries of each target, one
\* ms either side of them, and the empty buffer
Lengths ==
    {0} \cup {b * t + d : b \in {48000, 72000}, t \in 1..MaxTarget, d \in {-1, 0, 1}}

\* target_minutes: None (no entry) or an int
Targets == {<<>>} \cup {<<t>> : t \in 0..MaxTarget}

InitExport ==
    /\ NoRun
    /\ parser = Idle
    /\ backend_call = Idle
    /\ engine_check = Idle
    /\ resolver = Idle
    /\ workers = Idle
    /\ \E len_audio \in Lengths, target \in Targets :
          export_call = [pc |-> "export", audio |-> len_audio,
                         target_minutes |-> target, output_file |-> <<>>,
                         feedback |-> <<>>, exported |-> <<>>]

\* audio.export(output_path, format=OUTPUT_FORMAT)
ExportWrite ==
    /\ export_call.pc = "export"
    /\ \E outcome \in RunOutcomes :
          export_call' =
              IF outcome = "fail"
              THEN [export_call EXCEPT !.pc = "raised"]
              ELSE [export_call EXCEPT !.pc = "feedback",
                                       !.output_file = <<export_call.audio>>]
    /\ UNCHANGED <<run_vars, parser, backend_call, engine_check, resolver,
                   workers>>

\* if target_minutes: self._show_duration_feedback(duration_minutes, target_minutes)
\* exported is the file as the feedback step found it
DurationFeedback ==
    /\ export_call.pc = "feedback"
    /\ LET target == export_call.target_minutes IN
       export_call' = [export_call EXCEPT
           !.pc = "returned",
           !.exported = export_call.output_file,
           !.feedback =
               IF target = <<>> \/ target = <<0>> THEN <<>>
               ELSE <<ShowDurationFeedback(DurationMinutes(export_call.audio),
                                           target[1])>>]
    /\ UNCHANGED <<run_vars, parser, backend_call, engine_check, resolver,
                   workers>>

NextExport == ExportWrite \/ DurationFeedback

SpecExport == InitExport /\ [][NextExport]_vars

-----------------------------------------------------------------------------
(* Properties *)

\* the synthesize calls made for dialogue lines (a probe call has line 0)
LineCalls == SelectSeq(synth_calls, LAMBDA c : c.line > 0)

\* C1: when the dialogue lines contain a speaker with no entry in the
\* speaker->voice mapping, the run fails with the missing-voice-mapping error
\* before any backend synthesize call is made: no synthesize call has been
\* logged when that error is raised, wherever the speaker first appears.
MappingCompleteness ==
    ( /\ error = "MissingVoiceMapping"
      /\ \E i \in 1..Len(dialogue_lines) :
            dialogue_lines[i] \notin DOMAIN speaker_voices )
    => synth_calls = <<>>

\* C2: after a voice download that failed at any point, the existence check of
\* the resolver does not report the voice as present: whenever both files of a
\* voice exist in the cache, both are complete.
PartialDownloadSafety ==
    \A v \in VoiceIds :
        CacheHit(cache, v) =>
            cache[v].onnx = "complete" /\ cache[v].json = "complete"

\* C7: in every state of a run, also after a failure at any step, the file at
\* the final output path is either absent or the complete combined audio.
AtomicExport == output_file \in {"absent", "complete"}

\* C8: whenever synthesize returns without raising, a file exists at
\* output_path (for every backend, speed_scale and output format): when the
\* run is about to load the clip of line idx, its file is in the scratch
\* directory.
SynthesizePostcondition ==
    pc = "load" => WavFile(idx, OUTPUT_FORMAT) \in DOMAIN tempfiles

\* C10: when the unknown-engine error is raised, no synthesize call has been
\* made for any dialogue line, also not for the lines of validly configured
\* speakers that precede the badly configured one.
FailFastUnknownEngine ==
    error = "UnknownEngine" => LineCalls = <<>>

\* the exceptions engine.synthesize raises
SynthesisFailures == {"SynthesisError", "DownloadError", "UnsupportedVoiceFormat"}

\* C3: if the synthesis of a dialogue line raises, the error propagates: the
\* failing line was tried once and is the last line tried (no retry, no skip),
\* the run only cleans up and fails, nothing is combined and no file is written
\* at the output path.
AllOrNothingRun ==
    error \in SynthesisFailures =>
        /\ pc \in {"cleanup", "failed"}
        /\ combined = <<>>
        /\ output_file = "absent"
        /\ LineCalls # <<>>
        /\ ~LineCalls[Len(LineCalls)].returned
        /\ \A k \in 1..(Len(LineCalls) - 1) :
              /\ LineCalls[k].returned
              /\ LineCalls[k].line < LineCalls[Len(LineCalls)].line

\* C3 witness: a run of process_script_to_audio that failed in the synthesis of
\* its second line, after the first line's clip was loaded
AllOrNothingRunWitness ==
    /\ entry = "process_script_to_audio"
    /\ pc = "failed"
    /\ error = "SynthesisError"
    /\ Len(LineCalls) = 2
    /\ Len(clips) = 1

\* C4: one synthesize call per dialogue line, in line order; the call for line
\* k+1 is made only when the clip of line k is loaded; every loaded clip k is
\* the audio of line k; on return there is one clip per dialogue line.
SequentialInOrder ==
    /\ \A k \in 1..Len(LineCalls) : LineCalls[k].line = k
    /\ Len(clips) <= Len(LineCalls)
    /\ Len(LineCalls) <= Len(clips) + 1
    /\ \A k \in 1..Len(clips) : clips[k] = SpeechOf(k)
    /\ pc \in {"returned", "combine", "export", "done"} =>
          /\ Len(clips) = Len(dialogue_lines)
          /\ Len(LineCalls) = Len(dialogue_lines)

\* C4 witness: _generate_audio_clips returned the clips of two lines
SequentialInOrderWitness ==
    /\ pc = "returned"
    /\ Len(dialogue_lines) = 2
    /\ clips = <<SpeechOf(1), SpeechOf(2)>>

\* C6: the scratch directory does not exist once _generate_audio_clips has
\* exited, whatever the exit path.
ScratchCleanup ==
    pc \in {"returned", "combine", "export", "done", "failed"} =>
        tempdir # "exists"

\* C6 witness: the function exited with a clip load failure and the directory
\* it had created is removed
ScratchCleanupWitness ==
    /\ pc = "failed"
    /\ error = "ClipLoadError"
    /\ tempdir = "removed"

\* C9: a resolver call made while both files exist makes no network request
\* and returns the model path; once a call for a voice has succeeded, no later
\* call for that voice makes a request, so two calls starting from an empty
\* cache download the model+config pair (two requests) exactly once.
CacheHitAvoidsNetwork ==
    \A i \in 1..Len(resolver_calls) :
        LET c == resolver_calls[i] IN
        /\ c.present => c.requests = 0 /\ c.ok
        /\ (c.ok /\ ~c.present) => c.requests = 2
        /\ c.ok => \A j \in (i + 1)..Len(resolver_calls) :
                      resolver_calls[j].voice = c.voice =>
                          resolver_calls[j].requests = 0 /\ resolver_calls[j].ok

\* C9 witness: two consecutive calls for one voice, the first a successful
\* download into the empty cache, the second a cache hit
CacheHitAvoidsNetworkWitness ==
    /\ Len(resolver_calls) = 2
    /\ resolver_calls[1].voice = resolver_calls[2].voice
    /\ ~resolver_calls[1].present /\ resolver_calls[1].ok
    /\ resolver_calls[1].requests = 2
    /\ resolver_calls[2].hit /\ resolver_calls[2].requests = 0

\* the phases of process_script_to_audio, in the order of its statements
PhaseSequence ==
    <<"Validating", "Resolving-Voices", "Synthesizing", "Combining",
      "Exporting", "Done">>

\* the phases a run went through are a prefix of PhaseSequence, possibly
\* followed by Failed
PhasesInOrder ==
    LET n == Len(phase_log)
        m == IF phase_log[n] = "Failed" THEN n - 1 ELSE n
    IN  /\ m <= Len(PhaseSequence)
        /\ SubSeq(phase_log, 1, m) = SubSeq(PhaseSequence, 1, m)

\* after an exception raised in a phase the run is still in that phase or in
\* Failed
FailureIsFinal == \A r \in raised : Phase \in {r.phase, "Failed"}

\* C5: a run of process_script_to_audio goes through the phases Validating,
\* Resolving-Voices, Synthesizing, Combining, Exporting, Done in this order,
\* none skipped and none re-entered, and a failure in any phase moves the run
\* to Failed with no later phase entered.
AssemblyPhaseOrder ==
    entry = "process_script_to_audio" => PhasesInOrder /\ FailureIsFinal

\* the sum of the durations of the clips cs
RECURSIVE TotalDuration(_)
TotalDuration(cs) ==
    IF cs = <<>> THEN 0 ELSE Len(cs[1]) + TotalDuration(Tail(cs))

\* the part of the buffer where clip i of cs lies if the clips are joined in
\* list order with nothing between them
SegmentOf(buffer, cs, i) ==
    LET start == TotalDuration(SubSeq(cs, 1, i - 1)) IN
    SubSeq(buffer, start + 1, start + Len(cs[i]))

\* C18: _combine_audio_clips joins the clips in list order with nothing
\* inserted: the duration of the combined buffer is the sum of the clip
\* durations, its i-th segment is the i-th clip, and clips of 1, 2 and 3 units
\* give 6 units.
OrderPreservingConcatenation ==
    /\ (pc \in {"export", "done"} \/ (pc = "failed" /\ error = "AssemblyError")) =>
          /\ Len(combined) = TotalDuration(clips)
          /\ \A i \in 1..Len(clips) : SegmentOf(combined, clips, i) = clips[i]
    /\ LET three == <<SpeechOf(1), SpeechOf(2), SpeechOf(3)>> IN
          /\ Len(CombineAudioClips(three)) = 6
          /\ \A i \in 1..3 : SegmentOf(CombineAudioClips(three), three, i) = three[i]

\* C18 witness: the clips of two lines (1 and 2 units) were combined
OrderPreservingConcatenationWitness ==
    /\ pc = "export"
    /\ clips = <<SpeechOf(1), SpeechOf(2)>>
    /\ combined = <<1, 2, 2>>

\* C19: every failure that occurs during a run propagates to the caller: when
\* an exception has been raised, the run carries an error.
NoSilentSwallowing == raised # {} => error # None

\* the physical lines the loop of the parser has dealt with
ProcessedLines == 1..(parser.line_num - 1)

\* the speakers the patterns capture from a line
CapturedSpeakers(line) ==
    {ReMatch(patterns[j], line).speaker :
        j \in {i \in DOMAIN patterns : ReMatch(patterns[i], line).matched}}

\* C12: every (speaker, text) pair of validate_and_preview_script has a speaker
\* that is, character for character, a member of expected_speakers, and a
\* line whose captured speaker is not a member never becomes a dialogue line.
SpeakerClosure ==
    /\ \A k \in DOMAIN parser.dialogue_lines :
          parser.dialogue_lines[k][1] \in parser.expected_speakers
    /\ \A n \in ProcessedLines :
          LET captured == CapturedSpeakers(Strip(parser.lines[n])) IN
          (captured # {} /\ captured \cap parser.expected_speakers = {})
              => n \notin Range(parser.sources)

\* C12 witness: a call returned for a script with a line of the speaker "Host",
\* who is not expected
SpeakerClosureWitness ==
    /\ parser.pc = "returned"
    /\ \E n \in DOMAIN parser.lines : parser.lines[n] = MixedCaseSpeaker
    /\ Host \in parser.expected_speakers

\* C13: the returned sequence is a subsequence of the physical lines: the k-th
\* dialogue line is what its source line yields, and the source line numbers
\* strictly increase.
OrderPreservation ==
    /\ Len(parser.sources) = Len(parser.dialogue_lines)
    /\ \A k \in 2..Len(parser.sources) : parser.sources[k - 1] < parser.sources[k]
    /\ \A k \in DOMAIN parser.sources :
          /\ parser.sources[k] \in DOMAIN parser.lines
          /\ LET m == TryPatterns(Strip(parser.lines[parser.sources[k]]),
                                  parser.expected_speakers, 1)
             IN  m.matched /\ parser.dialogue_lines[k] = <<m.speaker, m.text>>

\* C13 witness: two dialogue lines of different speakers were returned
OrderPreservationWitness ==
    /\ parser.pc = "returned"
    /\ parser.lines = <<HostWelcome, PaddedGuest>>
    /\ Len(parser.dialogue_lines) = 2

\* a physical line the parser accepts as dialogue
Accepted(l, expected_speakers) ==
    /\ Strip(l) # <<>>
    /\ ~ShouldSkipLine(Strip(l))
    /\ TryPatterns(Strip(l), expected_speakers, 1).matched

\* C14: validate_and_preview_script never returns an empty sequence: when no
\* line of the input is accepted as dialogue, and only then, it raises the
\* no-dialogue-found error.
ValidationGate ==
    /\ parser.pc = "returned" => parser.dialogue_lines # <<>>
    /\ parser.pc \in {"returned", "raised"} =>
          ( (\A n \in DOMAIN parser.lines :
                 ~Accepted(parser.lines[n], parser.expected_speakers))
            <=> (parser.pc = "raised" /\ parser.error = "NoDialogueFound") )

\* C14 witness: the call raised for a script of a skipped line and a line whose
\* remainder is invalid
ValidationGateWitness ==
    /\ parser.pc = "raised"
    /\ parser.lines = <<FencedCode, ArtifactToken>>
    /\ Host \in parser.expected_speakers

\* "Welcome!"
Welcome == <<"W", "e", "l", "c", "o", "m", "e", "!">>

\* lines that match a skip predicate ("```" at the start, "return" inside)
SkipExamples == {FencedCode, ReturnLine}

\* C15: a line that matches a skip predicate produces no dialogue line and is
\* recorded in the unmatched diagnostics, without an error, and the line
\* "HOST: Welcome!" with HOST expected produces exactly (HOST, "Welcome!").
SkipCorrectness ==
    /\ \A n \in ProcessedLines :
          LET line == Strip(parser.lines[n]) IN
          (line # <<>> /\ (ShouldSkipLine(line) \/ line \in SkipExamples)) =>
              /\ n \notin Range(parser.sources)
              /\ Unmatched(n, line) \in Range(parser.unmatched_lines)
    /\ parser.error # None => parser.dialogue_lines = <<>>
    /\ \A n \in ProcessedLines :
          (parser.lines[n] = HostWelcome /\ Host \in parser.expected_speakers) =>
              /\ \E k \in DOMAIN parser.sources : parser.sources[k] = n
              /\ \A k \in DOMAIN parser.sources :
                    parser.sources[k] = n =>
                        parser.dialogue_lines[k] = <<Host, Welcome>>

\* C15 witness: the script of the two lines of the claim, with only HOST expected
SkipCorrectnessWitness ==
    /\ parser.pc = "returned"
    /\ parser.expected_speakers = {Host}
    /\ parser.lines = <<FencedCode, HostWelcome>>
    /\ parser.dialogue_lines = <<<<Host, Welcome>>>>
    /\ parser.unmatched_lines = <<Unmatched(1, FencedCode)>>

\* the lines "HOST: p Hello there" for the prefixes p the specification names
NamedPrefixLines == {TextPrefixed, VoicePrefixed, SaysPrefixed, DialoguePrefixed}

\* C16: for an expected speaker S, each of the prefixes p "text:", "voice:",
\* "says:", "dialogue:" and a valid utterance u, the line "S: p u" yields the
\* dialogue line (S, u).
PrefixCleaning ==
    \A n \in ProcessedLines :
        (parser.lines[n] \in NamedPrefixLines /\ Host \in parser.expected_speakers) =>
            \E k \in DOMAIN parser.sources :
                parser.sources[k] = n /\ parser.dialogue_lines[k] = <<Host, Utterance>>

\* a cleaned text that is empty, short or an artifact token
ArtifactOrShort(text) ==
    text = <<>> \/ Len(text) < 5 \/ ToLower(text) \in invalid_content

\* C17: every returned dialogue line has a cleaned text that is non-empty, has
\* at least 5 characters and is not, ignoring case, an artifact token; a line
\* that matched a speaker pattern with an expected speaker but whose cleaned
\* remainder fails this check is discarded.
TextValidity ==
    /\ \A k \in DOMAIN parser.dialogue_lines :
          ~ArtifactOrShort(parser.dialogue_lines[k][2])
    /\ \A n \in ProcessedLines :
          LET line == Strip(parser.lines[n])
              hits == {j \in DOMAIN patterns :
                          /\ ReMatch(patterns[j], line).matched
                          /\ ReMatch(patterns[j], line).speaker
                                 \in parser.expected_speakers}
          IN  ( /\ hits # {}
                /\ \A j \in hits :
                      ArtifactOrShort(CleanDialogueText(ReMatch(patterns[j], line).text)) )
              => n \notin Range(parser.sources)

\* C17 witness: a call returned for a script with the line "HOST: Voice", whose
\* remainder is an artifact token of 5 characters
TextValidityWitness ==
    /\ parser.pc = "returned"
    /\ parser.lines = <<ArtifactToken, HostWelcome>>
    /\ parser.dialogue_lines = <<<<Host, Welcome>>>>

\* C11: for every backend, the text synthesize hands to the underlying engine
\* is the input text after TTSEngine.clean_text_for_tts.
SharedNormalization ==
    backend_call.pc = "engine" =>
        backend_call.handed = CleanTextForTts(backend_call.text)

\* the speakers of the speaker mapping whose backend is not available
Unserved(c) ==
    {s \in DOMAIN c.speaker_map :
        LET e == EngineUsed(c.engine_map, s) IN
        e \in DOMAIN c.available_engines /\ ~c.available_engines[e]}

\* C20: validate_tts_engines checks the availability of the backend every
\* speaker will use, the default backend of speakers without an engine entry
\* included: when such a backend is unavailable it returns failure, and a
\* failure for an unavailable backend reports the backend and the speaker.
UpFrontAvailability ==
    engine_check.pc = "done" =>
        /\ Unserved(engine_check) # {} => engine_check.result = FALSE
        /\ ( engine_check.message # None
             /\ engine_check.message.kind = "not available" ) =>
               /\ engine_check.message.speaker \in Unserved(engine_check)
               /\ engine_check.message.engine =
                     EngineUsed(engine_check.engine_map, engine_check.message.speaker)

\* C30: in process_script_to_audio the expected speakers are the keys of the
\* speaker->voice mapping: the dialogue lines are the script lines of mapped
\* speakers, in order, the lines of other speakers are dropped without an
\* error of their own, and the missing-voice error is raised only for a mapped
\* speaker whose voice is empty.
UnmappedSpeakersFiltered ==
    entry = "process_script_to_audio" =>
        /\ \A i \in DOMAIN dialogue_lines : dialogue_lines[i] \in DOMAIN speaker_voices
        /\ (pc # "validate" /\ error # "NoDialogueFound") =>
              dialogue_lines =
                  SelectSeq(script, LAMBDA sp : sp \in DOMAIN speaker_voices)
        /\ error = "NoDialogueFound" =>
              \A i \in DOMAIN script : script[i] \notin DOMAIN speaker_voices
        /\ error = "MissingVoiceMapping" =>
              /\ dialogue_lines[idx] \in DOMAIN speaker_voices
              /\ speaker_voices[dialogue_lines[idx]] = ""

\* C30 witness: a script with a line of an unmapped speaker reached the
\* synthesis loop, where a mapped speaker without a voice raised
UnmappedSpeakersFilteredWitness ==
    /\ entry = "process_script_to_audio"
    /\ \E i \in DOMAIN script : script[i] \notin DOMAIN speaker_voices
    /\ error = "MissingVoiceMapping"

\* C22: every synthesize call of a dialogue line gets the run's speed_scale,
\* and the command Piper builds contains "--length_scale <speed_scale>"
\* exactly when speed_scale is not 1.0 (1.2 gives "--length_scale 1.2").
SpeedScalePassThrough ==
    \A k \in DOMAIN LineCalls :
        LET c == LineCalls[k]
            flags == {i \in DOMAIN c.command : c.command[i] = "--length_scale"}
        IN  /\ c.speed_scale = speed_scale
            /\ c.command # <<>> =>
                  IF speed_scale = NormalSpeed THEN flags = {}
                  ELSE /\ Cardinality(flags) = 1
                       /\ \A i \in flags :
                             /\ i < Len(c.command)
                             /\ c.command[i + 1] = FloatStr(speed_scale)
                             /\ speed_scale = 12 => c.command[i + 1] = "1.2"

\* C22 witness: two lines were synthesized by Piper at speed 1.2
SpeedScalePassThroughWitness ==
    /\ speed_scale = 12
    /\ Len(LineCalls) = 2
    /\ \A k \in DOMAIN LineCalls :
          LineCalls[k].engine = "piper" /\ LineCalls[k].returned

\* the synthesize calls made on the Piper engine: the k-th of them made the
\* k-th resolver call
PiperCalls == SelectSeq(synth_calls, LAMBDA c : c.engine = "piper")

\* C25: within one run of process_script_to_audio a download is attempted at
\* most once for each voice, and no download is attempted by the synthesize
\* call of a dialogue line (Synthesizing phase).
PreResolutionOncePerVoice ==
    entry = "process_script_to_audio" =>
        /\ \A v \in VoiceIds :
              Cardinality({k \in DOMAIN resolver_calls :
                              /\ resolver_calls[k].voice = v
                              /\ resolver_calls[k].requests > 0}) <= 1
        /\ \A k \in DOMAIN resolver_calls :
              PiperCalls[k].line > 0 => resolver_calls[k].requests = 0

\* C26: the line "**HOST**: Welcome!", with HOST expected, yields the dialogue
\* line (HOST, "Welcome!"), the bold markers stripped from the speaker.
BoldWrappedSpeaker ==
    \A n \in ProcessedLines :
        (parser.lines[n] = BoldSpeaker /\ Host \in parser.expected_speakers) =>
            \E k \in DOMAIN parser.sources :
                parser.sources[k] = n /\ parser.dialogue_lines[k] = <<Host, Welcome>>

\* the physical lines dealt with so far that were accepted as dialogue
AcceptedLines ==
    {n \in ProcessedLines : Accepted(parser.lines[n], parser.expected_speakers)}

\* C27: each physical line produces at most one dialogue line, two consecutive
\* accepted lines of one speaker produce two dialogue lines, and the number of
\* dialogue lines is the number of accepted physical lines.
OneTurnPerLine ==
    LET accepted == AcceptedLines IN
    /\ Len(parser.dialogue_lines) = Cardinality(accepted)
    /\ \A n \in ProcessedLines :
          Cardinality({k \in DOMAIN parser.sources : parser.sources[k] = n}) <= 1
    /\ \A n \in accepted :
          n + 1 \in accepted =>
              \E k \in DOMAIN parser.sources :
                  /\ k + 1 \in DOMAIN parser.sources
                  /\ parser.sources[k] = n /\ parser.sources[k + 1] = n + 1
                  /\ k + 1 \in DOMAIN parser.dialogue_lines

\* C27 witness: two consecutive lines of HOST, each matched by all three
\* patterns, were returned as two dialogue lines
OneTurnPerLineWitness ==
    /\ parser.pc = "returned"
    /\ parser.lines = <<HostWelcome, TextPrefixed>>
    /\ parser.dialogue_lines = <<<<Host, Welcome>>, <<Host, Utterance>>>>

\* lines of the expected speaker HOST with an utterance that is valid but
\* contains "return" / "dialogue:"
LabelledSkipExamples == {ReturnLine, DialoguePrefixed}

\* C28: a line that begins with an expected speaker prefix and has an
\* otherwise valid utterance is never returned as a dialogue line when a skip
\* predicate holds for the whole line.
SkipPrecedence ==
    \A n \in ProcessedLines :
        LET line == Strip(parser.lines[n]) IN
        ( /\ (line \in LabelledSkipExamples \/ ShouldSkipLine(line))
          /\ TryPatterns(line, parser.expected_speakers, 1).matched )
        => /\ n \notin Range(parser.sources)
           /\ Unmatched(n, line) \in Range(parser.unmatched_lines)

\* C28 witness: "HOST: I will return soon" was dropped and the next line of
\* HOST returned
SkipPrecedenceWitness ==
    /\ parser.pc = "returned"
    /\ Host \in parser.expected_speakers
    /\ parser.lines = <<ReturnLine, HostWelcome>>
    /\ parser.sources = <<2>>

\* C21: a resolver call for a voice name that starts with neither "en_US-" nor
\* "en_GB-" and is not cached fails with the unsupported-voice-format error,
\* issues no network request and leaves the cache directory as it was.
UnsupportedVoiceFormat ==
    \A k \in DOMAIN resolver.call :
        LET call == resolver.call[k] IN
        (~RecognizedConvention(call.voice) /\ ~call.hit)
        => /\ call.raised = "UnsupportedVoiceFormat"
           /\ call.requests = 0
           /\ resolver.cache = call.before

\* C29: in every reachable cache state a voice whose model file exists (the
\* check of pre-resolution) has both files (the check of the resolver), and a
\* resolver call for a voice that pre-resolution skipped is a cache hit.
PresenceCheckAgreement ==
    /\ \A v \in VoiceNames :
          Exists(resolver.cache[v].onnx) => CacheHit(resolver.cache, v)
    /\ \A k \in DOMAIN resolver.call :
          resolver.call[k].skipped => resolver.call[k].hit

\* C24: two concurrent resolver calls for one voice are serialized: no file of
\* the cache is held open for writing by two callers at once, and no caller
\* gets a cache hit while a file of the voice is still being written.
DownloadsSerialized ==
    /\ \A f \in Range(VoiceFiles) : Cardinality(workers.files[f].writers) <= 1
    /\ \A w \in Callers : ~workers.hit_open_file[w]

\* C23: when _export_audio returns and a target of at least one minute was
\* given, the feedback step found the file written, left the file and the
\* buffer as they were and reported exactly one outcome: 'shorter' iff the
\* duration is below 0.8 * target, 'longer' iff it is above 1.2 * target and
\* 'close' otherwise, both boundary values included (durations in ms:
\* 0.8 * target minutes are 48000 * target ms, 1.2 * target are 72000 * target).
DurationFeedbackReported ==
    (export_call.pc = "returned" /\ export_call.target_minutes \notin {<<>>, <<0>>})
    => LET len_audio == export_call.audio
           target    == export_call.target_minutes[1]
       IN  /\ export_call.exported = <<len_audio>>
           /\ export_call.output_file = <<len_audio>>
           /\ export_call.feedback =
                  <<IF len_audio < 48000 * target THEN "shorter"
                    ELSE IF len_audio > 72000 * target THEN "longer"
                    ELSE "close">>

====
